---- MODULE Spec2Model ----
(***************************************************************************)
(* Model of src/src/components/copy.tsx: the PhantomConnect component.     *)
(*                                                                         *)
(* State: the three useState cells (walletKey, tokens, signature), the     *)
(* injected provider (window.solana), the asynchronous handler             *)
(* invocations that are suspended at an await, and two history variables   *)
(* (last, tokensFor) that record what the latest step did.                 *)
(*                                                                         *)
(* Every action is one run of the UI thread: the code of a handler from    *)
(* its entry, or from the await it was suspended at, up to the next await  *)
(* or its end.  The outcome of the awaited external call (provider, RPC,   *)
(* library) is the input of the action that resumes the handler.           *)
(*                                                                         *)
(* The handlers are operations of the component: they are modelled as      *)
(* callable in every state, also in those where the render (lines 242-265) *)
(* does not show their button.                                             *)
(***************************************************************************)
EXTENDS Naturals, Integers, Sequences, FiniteSets, Bags, TLC

\* ---------------------------------------------------------------- bounds
MaxTokens == 2      \* longest list of parsed token accounts an RPC answer carries
MaxInFlight == 2    \* connect/disconnect/fetch invocations suspended at an await
MaxCompress == 1    \* compressTokens invocations alive at once

\* ---------------------------------------------------------------- values
NoKey == "null"                 \* walletKey: PublicKey | null (line 25)
Keys == {"A", "B"}              \* accounts the provider can hand out
NoSig == "null"                 \* signature: string | null (line 27)
Sigs == {"s1", "s2"}            \* signatures signAndSendTransaction returns
\* the parsed.info of a token account as the RPC returns it (lines 60-62)
Accounts == {[mint |-> "m1", uiAmountString |-> "5"],
             [mint |-> "m2", uiAmountString |-> "7"]}

SeqsUpTo(S, n) == UNION {[1..k -> S] : k \in 0..n}

\* tokenAccountsList.value of a getParsedTokenAccountsByOwner answer
Responses == SeqsUpTo(Accounts, MaxTokens)

\* interface TokenInfo (lines 18-22)
TokenInfo == [mintAddress : {a.mint : a \in Accounts},
              amount : {a.uiAmountString : a \in Accounts},
              selected : BOOLEAN]

VARIABLES
  providerPresent,  \* 'solana' in window && window.solana?.isPhantom (lines 31-33)
  walletKey,        \* useState<PublicKey | null>(null), line 25
  tokens,           \* useState<TokenInfo[]>([]), line 26
  signature,        \* useState<string | null>(null), line 27
  pending,          \* bag of connect/disconnect/fetch invocations suspended at an await
  compress,         \* bag of compressTokens invocations (suspended or ended)
  last,             \* history: the handler step taken last and its external effects
  tokensFor         \* history: the account whose fetch stored the current list

vars == <<providerPresent, walletKey, tokens, signature, pending, compress, last, tokensFor>>

\* ------------------------------------------------------------ the history
\*   op       the handler step         fx     its window, provider, RPC and console calls
\*   pk       the account it is about  value  the RPC answer it consumed
\*   fetches  token fetches started so far on behalf of the connectWallet invocation
\*   index    the checkbox index
Step(op, fx, pk, fetches) ==
  [op |-> op, fx |-> fx, pk |-> pk, fetches |-> fetches, index |-> 0, value |-> << >>]

\* -------------------------------------------------------------- getProvider
\* lines 30-38: the provider, or window.open of the install page and undefined
getProvider == providerPresent
getProviderFx_NoOpen == {}

getProviderFx == IF providerPresent THEN {} ELSE {"window.open"}

\* ---------------------------------------------------------------- pending
Item(kind, pk, fetches) == [kind |-> kind, pk |-> pk, fetches |-> fetches]
Room(n) == BagCardinality(pending) + n <= MaxInFlight
Put(bag, item) == bag (+) SetToBag({item})
Take(bag, item) == bag (-) SetToBag({item})

\* ---------------------------------------------------------------- fetchTokens
\* lines 59-68: tokenAccountsList.value.map(...)
TokensInfo_DropLast(value) ==
  [i \in 1..(Len(value) - 1) |->
     [mintAddress |-> value[i].mint, amount |-> value[i].uiAmountString, selected |-> FALSE]]

TokensInfo_Swapped(value) ==
  [i \in 1..Len(value) |->
     [mintAddress |-> value[Len(value) + 1 - i].mint,
      amount |-> value[Len(value) + 1 - i].uiAmountString, selected |-> FALSE]]

TokensInfo(value) ==
  [i \in 1..Len(value) |->
     [mintAddress |-> value[i].mint, amount |-> value[i].uiAmountString, selected |-> FALSE]]

\* lines 56-58: the synchronous part of fetchTokens(publicKey): the RPC request is sent
fetchTokensStart(bag, publicKey) == Put(bag, Item("fetch", publicKey, 0))

\* lines 58-70: the RPC answered; the whole list is replaced
fetchTokensResolved(f, value) ==
  /\ tokens' = TokensInfo(value)
  /\ tokensFor' = f.pk
  /\ UNCHANGED walletKey

\* lines 71-73: the RPC failed; the error is logged
fetchTokensRejected_Clears(f) ==
  /\ tokens' = << >>
  /\ UNCHANGED <<walletKey, tokensFor>>

fetchTokensRejected(f) ==
  UNCHANGED <<walletKey, tokens, tokensFor>>

FetchResolve ==
  \E f \in BagToSet(pending) : \E value \in Responses :
    /\ f.kind = "fetch"
    /\ fetchTokensResolved(f, value)
    /\ pending' = Take(pending, f)
    /\ last' = [Step("fetchTokens:resolved", {}, f.pk, 0) EXCEPT !.value = value]
    /\ UNCHANGED <<providerPresent, signature, compress>>

FetchReject ==
  \E f \in BagToSet(pending) :
    /\ f.kind = "fetch"
    /\ fetchTokensRejected(f)
    /\ pending' = Take(pending, f)
    /\ last' = Step("fetchTokens:rejected", {"console.log"}, f.pk, 0)
    /\ UNCHANGED <<providerPresent, signature, compress>>

\* --------------------------------------------------- lifecycle handlers
\* lines 218-222: provider.on('connect', ...)
onConnect(publicKey, bag) ==
  /\ walletKey' = publicKey
  /\ pending' = fetchTokensStart(bag, publicKey)
  /\ UNCHANGED <<tokens, tokensFor>>

\* lines 224-228: provider.on('disconnect', ...)
onDisconnect ==
  /\ walletKey' = NoKey
  /\ tokens' = << >>
  /\ tokensFor' = NoKey

\* lines 230-238: provider.on('accountChange', ...)
onAccountChange_NoGuard(publicKey, bag) ==
  /\ walletKey' = publicKey
  /\ pending' = fetchTokensStart(bag, publicKey)
  /\ UNCHANGED <<tokens, tokensFor>>

onAccountChange(publicKey, bag) ==
  IF publicKey # NoKey
  THEN /\ walletKey' = publicKey
       /\ pending' = fetchTokensStart(bag, publicKey)
       /\ UNCHANGED <<tokens, tokensFor>>
  ELSE /\ pending' = bag
       /\ UNCHANGED <<walletKey, tokens, tokensFor>>

\* ---------------------------------------------------------- connectWallet
\* lines 41-45: up to the await of provider.connect()
connectWallet ==
  /\ IF getProvider
     THEN /\ Room(1)
          /\ pending' = Put(pending, Item("connect", NoKey, 0))
          /\ last' = Step("connectWallet:called", {"provider.connect"}, NoKey, 0)
     ELSE /\ pending' = pending
          /\ last' = Step("connectWallet:noProvider", getProviderFx, NoKey, 0)
  /\ UNCHANGED <<providerPresent, walletKey, tokens, signature, compress, tokensFor>>

\* The provider accepts the connection: it emits 'connect' with the account
\* (its handler, registered on mount at line 218, runs) and resolves the
\* promise of provider.connect() with {publicKey}.
ProviderConnectResolve ==
  \E c \in BagToSet(pending) : \E publicKey \in Keys :
    /\ c.kind = "connect"
    /\ Room(1)
    /\ onConnect(publicKey, Put(Take(pending, c), Item("connected", publicKey, c.fetches + 1)))
    /\ last' = Step("on:connect", {"rpc.getParsedTokenAccountsByOwner"}, publicKey, 0)
    /\ UNCHANGED <<providerPresent, signature, compress>>

\* lines 46-48: connectWallet resumed with resp
connectWalletResolved(c) ==
  /\ walletKey' = c.pk
  /\ pending' = fetchTokensStart(Take(pending, c), c.pk)
  /\ last' = Step("connectWallet:resolved", {"rpc.getParsedTokenAccountsByOwner"},
                  c.pk, c.fetches + 1)
  /\ UNCHANGED <<providerPresent, tokens, signature, compress, tokensFor>>

ConnectResume ==
  \E c \in BagToSet(pending) :
    /\ c.kind = "connected"
    /\ connectWalletResolved(c)

\* lines 49-51: provider.connect() rejected
connectWalletRejected_Refetches(c) ==
  /\ pending' = fetchTokensStart(Take(pending, c), walletKey)
  /\ last' = Step("connectWallet:rejected", {"console.log"}, NoKey, 0)
  /\ UNCHANGED <<providerPresent, walletKey, tokens, signature, compress, tokensFor>>

connectWalletRejected(c) ==
  /\ pending' = Take(pending, c)
  /\ last' = Step("connectWallet:rejected", {"console.log"}, NoKey, 0)
  /\ UNCHANGED <<providerPresent, walletKey, tokens, signature, compress, tokensFor>>

ConnectReject ==
  \E c \in BagToSet(pending) :
    /\ c.kind = "connect"
    /\ connectWalletRejected(c)

\* ------------------------------------------------------- disconnectWallet
\* lines 77-81: up to the await of provider.disconnect()
disconnectWallet ==
  /\ IF getProvider
     THEN /\ Room(1)
          /\ pending' = Put(pending, Item("disconnect", NoKey, 0))
          /\ last' = Step("disconnectWallet:called", {"provider.disconnect"}, NoKey, 0)
     ELSE /\ pending' = pending
          /\ last' = Step("disconnectWallet:noProvider", getProviderFx, NoKey, 0)
  /\ UNCHANGED <<providerPresent, walletKey, tokens, signature, compress, tokensFor>>

\* The provider disconnects: it emits 'disconnect' (handler of line 224) and
\* resolves the promise of provider.disconnect().
ProviderDisconnectResolve ==
  \E d \in BagToSet(pending) :
    /\ d.kind = "disconnect"
    /\ onDisconnect
    /\ pending' = Put(Take(pending, d), Item("disconnected", NoKey, 0))
    /\ last' = Step("on:disconnect", {}, NoKey, 0)
    /\ UNCHANGED <<providerPresent, signature, compress>>

\* lines 82-84: disconnectWallet resumed
disconnectWalletResolved_KeepsTokens(d) ==
  /\ walletKey' = NoKey
  /\ pending' = Take(pending, d)
  /\ last' = Step("disconnectWallet:resolved", {"console.log"}, NoKey, 0)
  /\ UNCHANGED <<providerPresent, tokens, tokensFor, signature, compress>>

disconnectWalletResolved(d) ==
  /\ walletKey' = NoKey
  /\ tokens' = << >>
  /\ tokensFor' = NoKey
  /\ pending' = Take(pending, d)
  /\ last' = Step("disconnectWallet:resolved", {"console.log"}, NoKey, 0)
  /\ UNCHANGED <<providerPresent, signature, compress>>

DisconnectResume ==
  \E d \in BagToSet(pending) :
    /\ d.kind = "disconnected"
    /\ disconnectWalletResolved(d)

\* lines 85-87: provider.disconnect() rejected
disconnectWalletRejected(d) ==
  /\ pending' = Take(pending, d)
  /\ last' = Step("disconnectWallet:rejected", {"console.log"}, NoKey, 0)
  /\ UNCHANGED <<providerPresent, walletKey, tokens, signature, compress, tokensFor>>

DisconnectReject ==
  \E d \in BagToSet(pending) :
    /\ d.kind = "disconnect"
    /\ disconnectWalletRejected(d)

\* ------------------------------------------- events the wallet originates
\* The user disconnects the site in the wallet: 'disconnect' is emitted.
EvDisconnect ==
  /\ providerPresent
  /\ onDisconnect
  /\ last' = Step("on:disconnect", {}, NoKey, 0)
  /\ UNCHANGED <<providerPresent, signature, pending, compress>>

\* The user switches account in the wallet: 'accountChange' is emitted with
\* the new account, or with nothing when that account is not connected.
EvAccountChange ==
  \E publicKey \in Keys \cup {NoKey} :
    /\ providerPresent
    /\ publicKey # NoKey => Room(1)
    /\ onAccountChange(publicKey, pending)
    /\ last' = Step("on:accountChange",
                    IF publicKey # NoKey THEN {"rpc.getParsedTokenAccountsByOwner"} ELSE {},
                    publicKey, 0)
    /\ UNCHANGED <<providerPresent, signature, compress>>

\* --------------------------------------------------- handleCheckboxChange
\* lines 93-94: copy of the array, the record at index with selected negated
\* (index counts from 0)
Toggled_All(toks, index) ==
  [i \in 1..Len(toks) |-> [toks[i] EXCEPT !.selected = ~toks[i].selected]]

Toggled(toks, index) ==
  [toks EXCEPT ![index + 1].selected = ~@]

\* lines 92-96
handleCheckboxChange ==
  \E index \in 0..(Len(tokens) - 1) :
    /\ tokens' = Toggled(tokens, index)
    /\ last' = [Step("handleCheckboxChange", {}, NoKey, 0) EXCEPT !.index = index]
    /\ UNCHANGED <<providerPresent, walletKey, signature, pending, compress, tokensFor>>

\* ------------------------------------------------------------------ Spec
\* After construction and the mount effect (lines 215-240): the state cells
\* hold their initial values; getProvider ran once.
Init ==
  /\ providerPresent \in BOOLEAN
  /\ walletKey = NoKey
  /\ tokens = << >>
  /\ signature = NoSig
  /\ pending = EmptyBag
  /\ compress = EmptyBag
  /\ last = Step("mount", getProviderFx, NoKey, 0)
  /\ tokensFor = NoKey

Next ==
  \/ connectWallet
  \/ ProviderConnectResolve
  \/ ConnectResume
  \/ ConnectReject
  \/ FetchResolve
  \/ FetchReject
  \/ disconnectWallet
  \/ ProviderDisconnectResolve
  \/ DisconnectResume
  \/ DisconnectReject
  \/ EvDisconnect
  \/ EvAccountChange
  \/ handleCheckboxChange

Spec == Init /\ [][Next]_vars

\* ========================================================= compressTokens
\* One invocation of compressTokens (lines 99-213).  The handler closes over
\* the state cells of the render it was created in: walletKey and signature
\* keep, for the whole invocation, the values they had when it was invoked.
\*   pc       the await the invocation is suspended at, or "done"
\*   nsel     selectedTokens.length (line 100)
\*   mint     selectedToken.mintAddress (lines 106, 113)
\*   owner    walletKey of the closure (line 114)
\*   sig      signature of the closure (line 203)
\*   payer    Keypair.generate() (line 112); 0 before it ran
\*   missing  getAccountInfo answered null (line 127)
\*   selection what the library's account selection handed back (line 163)
\*   caught   the catch block was entered (line 198)
\*   txSig    txSignature of the compression transaction (line 192)
\*   logsFor  the signature getTransaction was asked for (line 204)
\*   trace    the provider, RPC and library calls, the exceptions the handler
\*            itself throws and the alerts of the invocation, in order
\*   sent     the transactions handed to provider.signAndSendTransaction
NoMint == "none"
Payers == 1..(MaxCompress + 1)

Tx(kind, payer) == [kind |-> kind, feePayer |-> payer, signers |-> {payer}]

\* An ended invocation is kept for one state, so that what it did can be
\* inspected, and is dropped by the next step of any invocation.
Live == [r \in {q \in BagToSet(compress) : q.pc # "done"} |-> compress[r]]

Roomc == BagCardinality(Live) < MaxCompress

\* Keypair.generate(): a keypair no other live invocation holds
FreshPayer_Shared == CHOOSE p \in Payers : \A q \in Payers : p <= q

FreshPayer ==
  CHOOSE p \in Payers :
    /\ \A r \in BagToSet(Live) : r.payer # p
    /\ \A q \in Payers : (\A r \in BagToSet(Live) : r.payer # q) => p <= q

\* line 100: tokens.filter(token => token.selected)
IsSelected(t) == t.selected
selectedTokens(toks) == SelectSeq(toks, IsSelected)

Advance(r, pc, fx) == [r EXCEPT !.pc = pc, !.trace = @ \o fx]

\* lines 198-211, up to the await of getTransaction or to the end
catch_Silent(r) ==
  IF r.sig # NoSig
  THEN [Advance(r, "logs", <<"rpc.getTransaction">>) EXCEPT !.caught = TRUE, !.logsFor = r.sig]
  ELSE [Advance(r, "done", << >>) EXCEPT !.caught = TRUE]

catch(r) ==
  IF r.sig # NoSig
  THEN [Advance(r, "logs", <<"rpc.getTransaction">>) EXCEPT !.caught = TRUE, !.logsFor = r.sig]
  ELSE [Advance(r, "done", <<"alert:failed">>) EXCEPT !.caught = TRUE]

Replace(r, r2) == compress' = Put(Take(Live, r), r2)

Frame == UNCHANGED <<providerPresent, walletKey, tokens, pending, last, tokensFor>>

\* lines 99-117: from the click to the await of getAssociatedTokenAddress
compressTokensEntry_OnlyEmptyRejected(toks) ==
  LET sel == selectedTokens(toks)
      r0 == [pc |-> "entry", nsel |-> Len(sel), mint |-> NoMint, owner |-> walletKey,
             sig |-> signature, payer |-> 0, missing |-> FALSE,
             selection |-> "none", caught |-> FALSE, txSig |-> NoSig,
             logsFor |-> NoSig, trace |-> << >>, sent |-> << >>]
  IN IF Len(sel) = 0
     THEN Advance(r0, "done", <<"alert:select">>)
     ELSE IF ~getProvider \/ walletKey = NoKey
     THEN catch(Advance([r0 EXCEPT !.mint = sel[1].mintAddress], "entry",
                        (IF getProvider THEN << >> ELSE <<"window.open">>)
                          \o <<"throw:Wallet not connected">>))
     ELSE Advance([r0 EXCEPT !.mint = sel[1].mintAddress, !.payer = FreshPayer],
                  "ata", <<"Keypair.generate", "getAssociatedTokenAddress">>)

compressTokensEntry_Busy(toks) ==
  LET sel == selectedTokens(toks)
      r0 == [pc |-> "entry", nsel |-> Len(sel), mint |-> NoMint, owner |-> walletKey,
             sig |-> signature, payer |-> 0, missing |-> FALSE,
             selection |-> "none", caught |-> FALSE, txSig |-> NoSig,
             logsFor |-> NoSig, trace |-> << >>, sent |-> << >>]
  IN IF Len(sel) # 1
     THEN Advance(r0, "done", <<"alert:select">>)
     ELSE IF BagCardinality(Live) > 0
     THEN Advance(r0, "done", << >>)
     ELSE IF ~getProvider \/ walletKey = NoKey
     THEN catch(Advance([r0 EXCEPT !.mint = sel[1].mintAddress], "entry",
                        (IF getProvider THEN << >> ELSE <<"window.open">>)
                          \o <<"throw:Wallet not connected">>))
     ELSE Advance([r0 EXCEPT !.mint = sel[1].mintAddress, !.payer = FreshPayer],
                  "ata", <<"Keypair.generate", "getAssociatedTokenAddress">>)

compressTokensEntry(toks) ==
  LET sel == selectedTokens(toks)
      r0 == [pc |-> "entry", nsel |-> Len(sel), mint |-> NoMint, owner |-> walletKey,
             sig |-> signature, payer |-> 0, missing |-> FALSE,
             selection |-> "none", caught |-> FALSE, txSig |-> NoSig,
             logsFor |-> NoSig, trace |-> << >>, sent |-> << >>]
  IN IF Len(sel) # 1
     THEN Advance(r0, "done", <<"alert:select">>)
     ELSE IF ~getProvider \/ walletKey = NoKey
     THEN catch(Advance([r0 EXCEPT !.mint = sel[1].mintAddress], "entry",
                        (IF getProvider THEN << >> ELSE <<"window.open">>)
                          \o <<"throw:Wallet not connected">>))
     ELSE Advance([r0 EXCEPT !.mint = sel[1].mintAddress, !.payer = FreshPayer],
                  "ata", <<"Keypair.generate", "getAssociatedTokenAddress">>)

compressTokens ==
  /\ Roomc
  /\ compress' = Put(Live, compressTokensEntry(tokens))
  /\ UNCHANGED signature
  /\ Frame

\* lines 117-126
AtaSettled ==
  \E r \in BagToSet(Live) : \E ok \in BOOLEAN :
    /\ r.pc = "ata"
    /\ Replace(r, IF ok THEN Advance(r, "accountInfo", <<"rpc.getAccountInfo">>)
                        ELSE catch(r))
    /\ UNCHANGED signature
    /\ Frame

\* lines 126-139 (account missing) or 126-149 (account exists)
afterAccountInfo_NoCreate(r, answer) ==
  CASE answer = "exists" ->
         Advance(r, "requery", <<"rpc.getParsedTokenAccountsByOwner">>)
    [] answer = "null" ->
         Advance([r EXCEPT !.missing = TRUE], "requery", <<"rpc.getParsedTokenAccountsByOwner">>)
    [] OTHER -> catch(r)

afterAccountInfo(r, answer) ==
  CASE answer = "exists" ->
         Advance(r, "requery", <<"rpc.getParsedTokenAccountsByOwner">>)
    [] answer = "null" ->
         Advance([r EXCEPT !.missing = TRUE], "blockhash1", <<"rpc.getLatestBlockhash">>)
    [] OTHER -> catch(r)

AccountInfoSettled ==
  \E r \in BagToSet(Live) : \E answer \in {"exists", "null", "throw"} :
    /\ r.pc = "accountInfo"
    /\ Replace(r, afterAccountInfo(r, answer))
    /\ UNCHANGED signature
    /\ Frame

\* lines 139-143
Blockhash1Settled ==
  \E r \in BagToSet(Live) : \E ok \in BOOLEAN :
    /\ r.pc = "blockhash1"
    /\ Replace(r, IF ok
                  THEN [Advance(r, "send1", <<"sign", "send:create">>)
                          EXCEPT !.sent = Append(@, Tx("create", r.payer))]
                  ELSE catch(r))
    /\ UNCHANGED signature
    /\ Frame

\* lines 143-144
Send1Settled ==
  \E r \in BagToSet(Live) : \E ok \in BOOLEAN :
    /\ r.pc = "send1"
    /\ Replace(r, IF ok THEN Advance(r, "confirm1", <<"rpc.confirmTransaction">>)
                        ELSE catch(r))
    /\ UNCHANGED signature
    /\ Frame

\* lines 144-149
Confirm1Settled ==
  \E r \in BagToSet(Live) : \E ok \in BOOLEAN :
    /\ r.pc = "confirm1"
    /\ Replace(r, IF ok
                  THEN Advance(r, "requery",
                               <<"confirmed:create", "rpc.getParsedTokenAccountsByOwner">>)
                  ELSE catch(r))
    /\ UNCHANGED signature
    /\ Frame

\* What selectMinCompressedTokenAccountsForTransfer (line 163) can hand back
\* for the n accounts it is given: an exception, no input account, or a
\* non-empty selection among them whose first account has or lacks an address.
Selections(n) ==
  {"throw", "empty"} \cup (IF n > 0 THEN {"accounts", "noAddress"} ELSE {})

\* lines 149-185: the re-query answered with n accounts; selection; up to the
\* await of compress()
afterRequery_NoLengthCheck(r, selection) ==
  LET q == [r EXCEPT !.selection = selection]
  IN CASE selection \in {"accounts", "empty"} ->
            Advance(q, "build", <<"CompressedTokenProgram.compress">>)
       [] selection = "noAddress" -> catch(Advance(q, q.pc, <<"throw:No source address">>))
       [] OTHER -> catch(q)

afterRequery(r, selection) ==
  LET q == [r EXCEPT !.selection = selection]
  IN CASE selection = "accounts" -> Advance(q, "build", <<"CompressedTokenProgram.compress">>)
       [] selection = "empty" -> catch(Advance(q, q.pc, <<"throw:No input accounts">>))
       [] selection = "noAddress" -> catch(Advance(q, q.pc, <<"throw:No source address">>))
       [] OTHER -> catch(q)

RequerySettled ==
  \E r \in BagToSet(Live) : \E ok \in BOOLEAN : \E n \in 0..MaxTokens :
    \E selection \in Selections(n) :
      /\ r.pc = "requery"
      /\ Replace(r, IF ok THEN afterRequery(r, selection) ELSE catch(r))
      /\ UNCHANGED signature
      /\ Frame

\* lines 178-188
BuildSettled ==
  \E r \in BagToSet(Live) : \E ok \in BOOLEAN :
    /\ r.pc = "build"
    /\ Replace(r, IF ok THEN Advance(r, "blockhash2", <<"rpc.getLatestBlockhash">>)
                        ELSE catch(r))
    /\ UNCHANGED signature
    /\ Frame

\* lines 188-192
Blockhash2Settled ==
  \E r \in BagToSet(Live) : \E ok \in BOOLEAN :
    /\ r.pc = "blockhash2"
    /\ Replace(r, IF ok
                  THEN [Advance(r, "send2", <<"sign", "send:compress">>)
                          EXCEPT !.sent = Append(@, Tx("compress", r.payer))]
                  ELSE catch(r))
    /\ UNCHANGED signature
    /\ Frame

\* lines 192-196: setSignature(txSignature), then the await of confirmTransaction
Send2Settled ==
  \E r \in BagToSet(Live) : \E ok \in BOOLEAN : \E txSignature \in Sigs :
    /\ r.pc = "send2"
    /\ IF ok
       THEN /\ signature' = txSignature
            /\ Replace(r, [Advance(r, "confirm2", <<"rpc.confirmTransaction">>)
                             EXCEPT !.txSig = txSignature])
       ELSE /\ UNCHANGED signature
            /\ Replace(r, catch(r))
    /\ Frame

\* lines 196-197
Confirm2Settled ==
  \E r \in BagToSet(Live) : \E ok \in BOOLEAN :
    /\ r.pc = "confirm2"
    /\ Replace(r, IF ok THEN Advance(r, "done", <<"confirmed:compress", "alert:success">>)
                        ELSE catch(r))
    /\ UNCHANGED signature
    /\ Frame

\* lines 204-211: getTransaction answered or failed; the failure alert
afterLogs_AlertInsideTry(r, ok) ==
  IF ok THEN Advance(r, "done", <<"alert:failed">>)
        ELSE Advance(r, "done", <<"throw:getTransaction">>)

afterLogs(r, ok) ==
  IF ok THEN Advance(r, "done", <<"alert:failed">>)
        ELSE Advance(r, "done", <<"throw:getTransaction", "alert:failed">>)

LogsSettled ==
  \E r \in BagToSet(Live) : \E ok \in BOOLEAN :
    /\ r.pc = "logs"
    /\ Replace(r, afterLogs(r, ok))
    /\ UNCHANGED signature
    /\ Frame

\* The states the component can be in when "Compress Tokens" is clicked:
\* without a provider nothing was ever connected, fetched or submitted; with
\* one, no wallet key or one (compressTokens never tells two keys apart)
\* with any fetched list and any selection, and no signature or the one an
\* earlier invocation stored at line 193 (the wallet key and the list may
\* have changed since: disconnect and accountChange events, late fetches).
TokenLists ==
  UNION {{[i \in 1..Len(v) |-> [TokensInfo(v)[i] EXCEPT !.selected = b[i]]] :
            b \in [1..Len(v) -> BOOLEAN]} : v \in Responses}

InitCompress ==
  /\ providerPresent \in BOOLEAN
  /\ walletKey \in (IF providerPresent THEN {CHOOSE k \in Keys : TRUE, NoKey} ELSE {NoKey})
  /\ tokens \in (IF providerPresent THEN TokenLists ELSE {<< >>})
  /\ signature \in (IF providerPresent THEN Sigs \cup {NoSig} ELSE {NoSig})
  /\ pending = EmptyBag
  /\ compress = EmptyBag
  /\ last = Step("mount", getProviderFx, NoKey, 0)
  /\ tokensFor = NoKey

NextCompress ==
  \/ compressTokens
  \/ AtaSettled
  \/ AccountInfoSettled
  \/ Blockhash1Settled
  \/ Send1Settled
  \/ Confirm1Settled
  \/ RequerySettled
  \/ BuildSettled
  \/ Blockhash2Settled
  \/ Send2Settled
  \/ Confirm2Settled
  \/ LogsSettled

SpecCompress == InitCompress /\ [][NextCompress]_vars

\* ---------------------------------------------------------------- fairness
\* Every external call returns or throws: the invocation suspended at an
\* await is resumed.  Invocations are told apart by their keypair; those
\* that never generated one (payer 0) are identical copies of each other.
Settle ==
  \/ AtaSettled
  \/ AccountInfoSettled
  \/ Blockhash1Settled
  \/ Send1Settled
  \/ Confirm1Settled
  \/ RequerySettled
  \/ BuildSettled
  \/ Blockhash2Settled
  \/ Send2Settled
  \/ Confirm2Settled
  \/ LogsSettled

SettleOf(p) ==
  /\ Settle
  /\ \E r \in BagToSet(Live) :
       r.payer = p /\ CopiesIn(r, compress') < CopiesIn(r, compress)

\* compressTokens reads the list only through the selected records (line
\* 100): one list holding every account once, with its first k records
\* selected, stands for the lists with no, one and several selected records.
EveryAccount ==
  TokensInfo(CHOOSE v \in Responses : Len(v) = Cardinality(Accounts) /\ {v[i] : i \in 1..Len(v)} = Accounts)

InitFair ==
  /\ providerPresent \in BOOLEAN
  /\ walletKey \in (IF providerPresent THEN {CHOOSE k \in Keys : TRUE, NoKey} ELSE {NoKey})
  /\ tokens \in (IF providerPresent
                 THEN {[i \in 1..Len(EveryAccount) |->
                          [EveryAccount[i] EXCEPT !.selected = (i <= k)]] :
                         k \in 0..Len(EveryAccount)}
                 ELSE {<< >>})
  /\ signature \in (IF providerPresent THEN Sigs \cup {NoSig} ELSE {NoSig})
  /\ pending = EmptyBag
  /\ compress = EmptyBag
  /\ last = Step("mount", getProviderFx, NoKey, 0)
  /\ tokensFor = NoKey

SpecCompressFair ==
  InitFair /\ [][NextCompress]_vars /\ \A p \in {0} \cup Payers : WF_vars(SettleOf(p))

\* ------------------------------------------------------------ re-entrance
\* Line 259: nothing disables the button while an invocation is suspended;
\* a further click runs the handler of the same render again.
compressTokensReentrant ==
  /\ BagCardinality(Live) < MaxCompress + 1
  /\ compress' = Put(Live, compressTokensEntry(tokens))
  /\ UNCHANGED signature
  /\ Frame

\* A connected wallet whose list holds one record, selected.
InitRace ==
  /\ providerPresent = TRUE
  /\ walletKey = CHOOSE k \in Keys : TRUE
  /\ tokens = [TokensInfo(<<CHOOSE a \in Accounts : TRUE>>) EXCEPT ![1].selected = TRUE]
  /\ signature = NoSig
  /\ pending = EmptyBag
  /\ compress = EmptyBag
  /\ last = Step("mount", getProviderFx, NoKey, 0)
  /\ tokensFor = walletKey

NextRace ==
  \/ compressTokensReentrant
  \/ AtaSettled
  \/ AccountInfoSettled
  \/ Blockhash1Settled
  \/ Send1Settled
  \/ Confirm1Settled
  \/ RequerySettled
  \/ BuildSettled
  \/ Blockhash2Settled
  \/ Send2Settled
  \/ Confirm2Settled
  \/ LogsSettled

SpecRace == InitRace /\ [][NextRace]_vars

\* ================================================================ claims
Range(f) == {f[i] : i \in DOMAIN f}
Pos(trace, x) == {i \in 1..Len(trace) : trace[i] = x}
Count(trace, x) == Cardinality(Pos(trace, x))
Invocations == BagToSet(compress)

\* C1: in an invocation with one selected token that saw the associated
\* account missing, every submission of the compression transaction comes
\* after the submission of the creation transaction and after the
\* confirmation of that creation.
C1_CreateBeforeCompress ==
  \A r \in Invocations :
    (r.nsel = 1 /\ r.missing) =>
      \A i \in Pos(r.trace, "send:compress") :
        \E j \in Pos(r.trace, "send:create") : \E k \in Pos(r.trace, "confirmed:create") :
          j < k /\ k < i

C1_Witness ==
  \E r \in Invocations :
    r.nsel = 1 /\ r.missing /\ Pos(r.trace, "send:compress") # {}

\* An invocation that found zero or several selected records has ended
\* having done nothing but show the 'select exactly one' alert.
C2_RejectedDidNothing ==
  \A r \in Invocations :
    r.nsel # 1 => r.pc = "done" /\ r.trace = <<"alert:select">> /\ r.sent = << >>

\* C2: an invocation that found zero or several selected records has ended
\* having done nothing but show the 'select exactly one' alert (no provider,
\* RPC or library call, no transaction), and the step that ran it left the
\* wallet key, the token list, the signature and the pending requests alone.
C2_NoCallNoChange ==
  /\ []C2_RejectedDidNothing
  /\ [][((\E r \in BagToSet(compress') : r.nsel # 1) /\ compress' # compress)
          => UNCHANGED <<walletKey, tokens, signature, pending, providerPresent>>]_vars

C2_Witness ==
  /\ \E r \in Invocations : r.nsel > 1
  /\ walletKey # NoKey

\* C3 as stated: whenever an invocation of disconnectWallet has completed,
\* however it went, the wallet key is unset and the token list is empty.
C3_ClearsUnconditionally ==
  last.op \in {"disconnectWallet:resolved", "disconnectWallet:rejected",
               "disconnectWallet:noProvider"}
    => walletKey = NoKey /\ tokens = << >>

\* C3 amended: whenever an invocation of disconnectWallet whose
\* provider.disconnect() call resolved has completed, the wallet key is
\* unset and the token list is empty.
C3_ClearsWhenResolved ==
  last.op = "disconnectWallet:resolved" => walletKey = NoKey /\ tokens = << >>

C3_Witness ==
  last.op = "disconnectWallet:resolved" /\ BagCardinality(pending) > 0

\* C4: when a connectWallet invocation whose provider.connect() resolved has
\* completed, the wallet key is the account the provider returned and
\* exactly one token fetch was started on behalf of that connect (by
\* connectWallet itself or by the 'connect' handler).
C4_ExactlyOneFetch ==
  last.op = "connectWallet:resolved" => walletKey = last.pk /\ last.fetches = 1

\* C5: an invocation to which the account selection handed back no input
\* account is in its catch block or ended, never built a compression
\* instruction nor submitted a compression transaction, and once ended has
\* shown the failure alert (and not the success alert).
C5_EmptySelectionAborts ==
  \A r \in Invocations :
    r.selection = "empty" =>
      /\ r.caught /\ r.pc \in {"logs", "done"}
      /\ "CompressedTokenProgram.compress" \notin Range(r.trace)
      /\ "send:compress" \notin Range(r.trace)
      /\ "alert:success" \notin Range(r.trace)
      /\ r.pc = "done" => Count(r.trace, "alert:failed") = 1

C5_Witness ==
  \E r \in Invocations : r.selection = "empty" /\ r.pc = "done"

\* C6: an invocation in which a step after the selection check failed (its
\* catch block was entered) never shows the success alert, and once ended
\* has shown the failure alert exactly once, whether the transaction-log
\* lookup was skipped, answered or failed.
C6_FailureAlertOnce ==
  \A r \in Invocations :
    r.caught =>
      /\ r.pc \in {"logs", "done"}
      /\ "alert:success" \notin Range(r.trace)
      /\ "alert:select" \notin Range(r.trace)
      /\ Count(r.trace, "alert:failed") = (IF r.pc = "done" THEN 1 ELSE 0)

C6_Witness ==
  \E r \in Invocations :
    r.caught /\ r.pc = "done" /\ "throw:getTransaction" \in Range(r.trace)

\* C7: when a token fetch has just stored an RPC answer, the token list has
\* one record per returned account, in the order returned, carrying that
\* account's mint and amount, with selected = FALSE.
C7_FetchReplacesList ==
  last.op = "fetchTokens:resolved" =>
    /\ Len(tokens) = Len(last.value)
    /\ \A i \in 1..Len(last.value) :
         /\ tokens[i].mintAddress = last.value[i].mint
         /\ tokens[i].amount = last.value[i].uiAmountString
         /\ tokens[i].selected = FALSE

C7_Witness ==
  /\ last.op = "fetchTokens:resolved"
  /\ Len(tokens) >= 2
  /\ tokens[1].mintAddress # tokens[2].mintAddress

\* C8: a checkbox toggle at a valid index negates the selected field of that
\* record and changes nothing else: not its mint or amount, not another
\* record, not the length or order of the list, not the wallet key.
C8_ToggleOnlyIndex ==
  [][handleCheckboxChange =>
       LET i == last'.index + 1
       IN /\ i \in 1..Len(tokens)
          /\ Len(tokens') = Len(tokens)
          /\ tokens'[i].selected = ~tokens[i].selected
          /\ tokens'[i].mintAddress = tokens[i].mintAddress
          /\ tokens'[i].amount = tokens[i].amount
          /\ \A j \in (1..Len(tokens)) \ {i} : tokens'[j] = tokens[j]
          /\ walletKey' = walletKey]_vars

C8_Witness ==
  /\ last.op = "handleCheckboxChange"
  /\ Len(tokens) >= 2
  /\ tokens[last.index + 1].selected
  /\ \E j \in 1..Len(tokens) : ~tokens[j].selected

\* C9: connectWallet without a provider opens the install page, calls
\* neither the provider nor the RPC, starts no request, and leaves the wallet
\* key unset and the token list as it was.
C9_NoProviderConnect ==
  [][(connectWallet /\ ~getProvider) =>
       /\ last'.fx = {"window.open"}
       /\ pending' = pending
       /\ walletKey = NoKey /\ walletKey' = NoKey
       /\ tokens' = tokens]_vars

C9_Witness ==
  last.op = "connectWallet:noProvider"

\* C10: the step in which the RPC call of fetchTokens fails leaves the token
\* list (records and selection flags) and the wallet key as they were.
C10_FailedFetchKeepsList ==
  [][FetchReject => (tokens' = tokens /\ walletKey' = walletKey)]_vars

C10_Witness ==
  /\ last.op = "fetchTokens:rejected"
  /\ \E i \in 1..Len(tokens) : tokens[i].selected

\* The token fetches suspended at their RPC call
FetchesIn(bag) == BagCardinality([f \in {g \in BagToSet(bag) : g.kind = "fetch"} |-> bag[f]])

\* C11: the step in which provider.connect() fails inside connectWallet
\* leaves the wallet key and the token list as they were and starts no
\* token fetch.
C11_FailedConnectKeepsState ==
  [][ConnectReject =>
       /\ walletKey' = walletKey
       /\ tokens' = tokens
       /\ FetchesIn(pending') = FetchesIn(pending)
       /\ "rpc.getParsedTokenAccountsByOwner" \notin last'.fx]_vars

C11_Witness ==
  /\ last.op = "connectWallet:rejected"
  /\ walletKey # NoKey
  /\ tokens # << >>

\* C12: an invocation that captured the signature of its compression
\* transaction and then entered its catch block asks getTransaction for
\* that signature.
C12_LogsForCapturedSignature ==
  \A r \in Invocations :
    (r.caught /\ r.txSig # NoSig) => r.logsFor = r.txSig

\* The requests compressTokens sends to the RPC endpoint
RpcCalls == {"rpc.getAccountInfo", "rpc.getLatestBlockhash", "rpc.confirmTransaction",
             "rpc.getParsedTokenAccountsByOwner", "rpc.getTransaction"}

NotConnected(r) == r.nsel = 1 /\ (~providerPresent \/ r.owner = NoKey)

C13_NoInFlightGuard ==
  \A r \in Invocations :
    (r.nsel = 1 /\ r.owner # NoKey) =>
      r.payer # 0 /\ "Keypair.generate" \in Range(r.trace)

\* two invocations in flight at once, both saw the associated account of the
\* same (mint, owner) missing, both submitted a creation transaction and
\* both went on to submit a compression transaction
C13_Witness ==
  \E r1 \in Invocations : \E r2 \in Invocations \ {r1} :
    /\ r1.pc # "done" /\ r2.pc # "done"
    /\ r1.mint = r2.mint /\ r1.owner = r2.owner
    /\ \A r \in {r1, r2} :
         /\ r.missing
         /\ "send:create" \in Range(r.trace)
         /\ "send:compress" \in Range(r.trace)

\* C15: every transaction an invocation submitted has the keypair generated
\* in that invocation as fee payer and as only signer (so both transactions
\* of an invocation use one keypair, and the wallet key is never the fee
\* payer), and no two invocations hold the same keypair.
C15_EphemeralFeePayer ==
  \A r \in Invocations :
    /\ \A i \in 1..Len(r.sent) :
         /\ r.sent[i].feePayer = r.payer
         /\ r.sent[i].signers = {r.payer}
         /\ r.payer \in Payers
    /\ r.payer # 0 =>
         /\ compress[r] = 1
         /\ \A q \in Invocations \ {r} : q.payer # r.payer

C15_Witness ==
  \E r1 \in Invocations : \E r2 \in Invocations \ {r1} :
    /\ Len(r1.sent) = 2 /\ Len(r2.sent) = 2
    /\ r1.sent[1].kind = "create" /\ r1.sent[2].kind = "compress"

\* The token fetches for publicKey suspended at their RPC call
FetchesFor(bag, publicKey) ==
  BagCardinality([f \in {g \in BagToSet(bag) : g.kind = "fetch" /\ g.pk = publicKey} |-> bag[f]])

\* C16: a connect event sets the wallet key to the event's account and starts
\* a token fetch for it; a disconnect event unsets the wallet key and empties
\* the list; an accountChange event with an account sets the wallet key to it
\* and starts a token fetch for it; an accountChange event without an account
\* leaves wallet key and list unchanged and starts no fetch.
C16_HandlersMirrorEvents ==
  [][/\ ProviderConnectResolve =>
          /\ last'.pk \in Keys /\ walletKey' = last'.pk
          /\ FetchesFor(pending', last'.pk) = FetchesFor(pending, last'.pk) + 1
          /\ FetchesIn(pending') = FetchesIn(pending) + 1
     /\ (ProviderDisconnectResolve \/ EvDisconnect) =>
          /\ walletKey' = NoKey /\ tokens' = << >>
          /\ FetchesIn(pending') = FetchesIn(pending)
     /\ (EvAccountChange /\ last'.pk # NoKey) =>
          /\ walletKey' = last'.pk
          /\ FetchesFor(pending', last'.pk) = FetchesFor(pending, last'.pk) + 1
          /\ FetchesIn(pending') = FetchesIn(pending) + 1
     /\ (EvAccountChange /\ last'.pk = NoKey) =>
          /\ walletKey' = walletKey /\ tokens' = tokens
          /\ FetchesIn(pending') = FetchesIn(pending)]_vars

\* an accountChange event without an account arrived while a wallet was
\* connected and its tokens listed
C16_Witness ==
  /\ last.op = "on:accountChange" /\ last.pk = NoKey
  /\ walletKey # NoKey
  /\ tokens # << >>

\* C17: whenever the wallet key is unset the token list is empty.
C17_NoKeyNoTokens == walletKey = NoKey => tokens = << >>

\* C18: once the last token fetch in flight has completed and stored its
\* list while a wallet key is set, the list it stored was fetched for that
\* wallet key, whatever order the responses arrived in.
C18_StoredForCurrentKey ==
  (/\ last.op = "fetchTokens:resolved"
   /\ FetchesIn(pending) = 0
   /\ tokens # << >>
   /\ walletKey # NoKey) => last.pk = walletKey

Alerts(r) ==
  Count(r.trace, "alert:select") + Count(r.trace, "alert:success")
    + Count(r.trace, "alert:failed")

\* C19: with every external call returning or throwing, every invocation of
\* compressTokens eventually ends; it shows no alert before its end and by
\* its end exactly one of the three alerts; no step of an invocation changes
\* the wallet key or the token list.  (Ending: the invocation holding
\* keypair p is again and again not suspended; of the invocations that
\* generated no keypair, identical copies of each other, one has ended.)
C19_EndsWithOneAlert ==
  /\ [](\A r \in Invocations : Alerts(r) = (IF r.pc = "done" THEN 1 ELSE 0))
  /\ [][walletKey' = walletKey /\ tokens' = tokens]_vars
  /\ \A p \in Payers : []<>(\A r \in BagToSet(Live) : r.payer # p)
  /\ (\E r \in BagToSet(Live) : r.payer = 0)
       ~> (\E r \in Invocations : r.payer = 0 /\ r.pc = "done")

\* an invocation that went all the way to the confirmation of the
\* compression transaction has ended, with the wallet key and the list in place
C19_Witness ==
  \E r \in Invocations :
    /\ r.pc = "done"
    /\ "rpc.confirmTransaction" \in Range(r.trace) /\ r.txSig # NoSig
    /\ walletKey = r.owner /\ selectedTokens(tokens) # << >>

====
